---- MODULE Spec2Model ----
(***************************************************************************)
(* Model of the document-to-index pipeline of small-size-league-mcp.       *)
(*   Spec        VectorStoreManager.add_or_update_documents (validation,   *)
(*               deduplication, token-budget batching, upsert)             *)
(*   SpecChunk   split_documents on the chunks of the text splitter        *)
(*   SpecIngest  run_all_commands up to the point where it ends            *)
(*   SpecSearch  ssl_search_tool and retrieve_k_relevant_documents         *)
(*   SpecManager the cached VectorStoreManager() calls of one process      *)
(*   SpecLoad    load_site, save_full_txt and split_documents in sequence  *)
(***************************************************************************)
EXTENDS Integers, Sequences, FiniteSets, TLC

(***************************************************************************)
(* Bounds of the model.                                                    *)
(***************************************************************************)
\* longest document list drawn from the mixed pool (valid and invalid documents)
MaxDocs == 3
\* longest document list of valid documents with pairwise distinct ids
MaxLong == 6
\* longest list of valid documents that all have the same token count
MaxUniform == 10
\* longest list of distinct ids into which one duplicate is inserted
MaxDup == 5
\* number of distinct ids carried by the documents of the mixed pool
NumIds == 3
\* number of calls of add_or_update_documents made on the same document list
MaxRuns == 2

(***************************************************************************)
(* Program constants.                                                      *)
(***************************************************************************)
\* default of the constructor parameter max_tokens_per_request
max_tokens_per_request == 300000

(***************************************************************************)
(* Documents.  A document is a record                                      *)
(*   id      : the value of metadata["id"], NoId when the key is absent    *)
(*   content : page_content                                                *)
(*   tokens  : the value of metadata["tokens"], NoTokens when absent       *)
(***************************************************************************)
NoId == 0
NoTokens == -1

TokenChoices == {100000, 200000, 400000}
LongTokenChoices == {100000, 400000}

Doc(i, c, t) == [id |-> i, content |-> c, tokens |-> t]

\* valid documents: they differ by token count, so that two documents with
\* the same id are distinguishable
ValidPool == {Doc(i, "x", t) : i \in 1..NumIds, t \in LongTokenChoices}

\* documents that remove_invalid_documents or the batching loop trip over
OddPool == { Doc(NoId, "x", 100000),
             Doc(1, "", 100000),
             Doc(2, " ", 100000),
             Doc(1, "x", NoTokens) }

DocPool == ValidPool \cup OddPool

SeqsUpTo(S, n) == UNION {[1..k -> S] : k \in 0..n}

MixedInputs == SeqsUpTo(DocPool, MaxDocs)

\* lists of valid documents whose ids are 1..n in order
LongInputs ==
    { [k \in 1..Len(ts) |-> Doc(k, "x", ts[k])] : ts \in SeqsUpTo(LongTokenChoices, MaxLong) }

\* ten documents of 100000 tokens, and one document of 400000 tokens
UniformInputs ==
    { [k \in 1..n |-> Doc(k, "x", t)] : n \in 0..MaxUniform, t \in TokenChoices }

\* ids 1..n in order, with a second document carrying the id p inserted after
\* position q; the duplicate differs from the first one by its token count
DupInputs ==
    { [k \in 1..(n + 1) |->
          IF k <= q THEN Doc(k, "x", t)
          ELSE IF k = q + 1 THEN Doc(p, "x", u)
          ELSE Doc(k - 1, "x", t)] :
        <<n, p, q, t, u>> \in
            { x \in (1..MaxDup) \X (1..MaxDup) \X (1..MaxDup)
                      \X LongTokenChoices \X LongTokenChoices :
                  x[2] <= x[3] /\ x[3] <= x[1] /\ x[4] # x[5] } }

Inputs == MixedInputs \cup LongInputs \cup UniformInputs \cup DupInputs

(***************************************************************************)
(* Pure helpers of the code.                                               *)
(***************************************************************************)
\* Python slice s[a:b] for 0 <= a, b <= len(s)
Slice(s, a, b) == SubSeq(s, a + 1, b)

\* the two tests of remove_invalid_documents
IsValidDocument(doc) ==
    /\ doc.id # NoId
    /\ doc.content # ""

RECURSIVE remove_invalid_documents(_)
remove_invalid_documents(docs) ==
    IF docs = <<>> THEN <<>>
    ELSE IF IsValidDocument(Head(docs))
         THEN <<Head(docs)>> \o remove_invalid_documents(Tail(docs))
         ELSE remove_invalid_documents(Tail(docs))

\* deduplicate_documents as it would be if a later document replaced the kept one
RECURSIVE DedupKeepLast(_)
DedupKeepLast(docs) ==
    IF docs = <<>> THEN <<>>
    ELSE IF \E k \in 2..Len(docs) : docs[k].id = Head(docs).id
         THEN DedupKeepLast(Tail(docs))
         ELSE <<Head(docs)>> \o DedupKeepLast(Tail(docs))

\* deduplicate_documents as it would be if the seen-test never fired
DedupNothing(docs) == docs

\* one iteration of the loop of deduplicate_documents
RECURSIVE DedupFrom(_, _, _)
DedupFrom(docs, seen, unique_docs) ==
    IF docs = <<>> THEN unique_docs
    ELSE IF Head(docs).id \notin seen
         THEN DedupFrom(Tail(docs), seen \cup {Head(docs).id}, Append(unique_docs, Head(docs)))
         ELSE DedupFrom(Tail(docs), seen, unique_docs)

deduplicate_documents(docs) == DedupFrom(docs, {}, <<>>)

get_ids(docs) == [k \in 1..Len(docs) |-> docs[k].id]

\* the budget test as it would be without the tokens of the current document
ExceedsBudgetIgnoringDoc(total, tokens) == total > max_tokens_per_request

\* the test that closes a batch on the token budget
ExceedsBudget(total, tokens) == total + tokens > max_tokens_per_request

\* add_documents as it would be without ids=: every document gets a new entry
RECURSIVE InsertAlways(_, _, _)
InsertAlways(store, keys, docs) ==
    IF keys = <<>> THEN store
    ELSE InsertAlways(Append(store, [key |-> Head(keys), doc |-> Head(docs)]),
                      Tail(keys), Tail(docs))

\* the index is a sequence of entries [key, doc]; add_documents with ids is
\* an upsert: an existing key is overwritten, a new key is appended
RECURSIVE Upsert(_, _, _)
Upsert(store, keys, docs) ==
    IF keys = <<>> THEN store
    ELSE LET k == Head(keys)
             d == Head(docs)
             hit == {p \in 1..Len(store) : store[p].key = k}
             next == IF hit = {}
                     THEN Append(store, [key |-> k, doc |-> d])
                     ELSE [p \in 1..Len(store) |->
                             IF p \in hit THEN [key |-> k, doc |-> d] ELSE store[p]]
         IN Upsert(next, Tail(keys), Tail(docs))

(***************************************************************************)
(* State.                                                                  *)
(***************************************************************************)
VARIABLES
    documents,          \* the argument of add_or_update_documents
    pc,                 \* "idle", "loop", "calling", "done"
    run,                \* number of the current call, 1..MaxRuns
    valid_documents,
    ids,
    added_ids,
    total_tokens,
    limit_index,
    last_added_index,
    idx,                \* loop index (0-based, as in enumerate)
    calls,              \* the add_documents calls of this run, in order
    index,              \* the persistent store
    outcome,            \* how the current call ended
    results,            \* outcomes of the completed calls
    in_flight,          \* number of add_documents calls started and not yet ended
    \* split_documents
    split_input,        \* the chunks returned by the text splitter
    split_runs,         \* the lists returned by the successive calls of split_documents
    \* run_all_commands
    stage,              \* position in run_all_commands
    urls_info,          \* what extract_urls_from_sitemap returns
    pages,              \* number of documents the loader yields for each URL
    url_file,           \* the lines of the stored URL file
    website_pages_urls, \* the return value of update_website_sources
    error,              \* the exception that ended run_all_commands
    loaded_urls,        \* the URLs in the order in which load_site visited them
    \* ssl_search_tool
    collection,         \* the chunks of the index with their relevance to the query
    request,            \* the SSLSearchInput
    response,           \* the filter sent to the index and the documents returned
    \* load_site, save_full_txt, split_documents
    load_stage,         \* how far the documents of one source have got
    site_docs,          \* the documents as load_site returned them
    full_txt,           \* the entries of the full-text file
    \* VectorStoreManager()
    cache,              \* the entries of the lru_cache around the class
    constructed,        \* the number of managers constructed in the process
    handles             \* the managers handed out, with the function that asked

batchVars == <<documents, pc, run, valid_documents, ids, added_ids, total_tokens,
               limit_index, last_added_index, idx, calls, index, outcome, results,
               in_flight>>
chunkVars == <<split_input, split_runs>>
ingestVars == <<stage, urls_info, pages, url_file, website_pages_urls, error,
               loaded_urls>>
searchVars == <<collection, request, response>>
loadVars == <<load_stage, site_docs, full_txt>>
managerVars == <<cache, constructed, handles>>

vars == <<batchVars, chunkVars, ingestVars, searchVars, loadVars, managerVars>>

\* the variables that add_or_update_documents does not touch
notBatch == <<chunkVars, ingestVars, searchVars, loadVars, managerVars>>

locals == <<valid_documents, ids, added_ids, total_tokens, limit_index,
            last_added_index, idx>>

\* nothing has been called yet on the manager
BatchIdle ==
    /\ pc = "idle"
    /\ run = 1
    /\ valid_documents = <<>>
    /\ ids = <<>>
    /\ added_ids = <<>>
    /\ total_tokens = 0
    /\ limit_index = 0
    /\ last_added_index = 0
    /\ idx = 0
    /\ calls = <<>>
    /\ index = <<>>
    /\ outcome = "running"
    /\ results = <<>>
    /\ in_flight = 0

ChunkIdle ==
    /\ split_input = <<>>
    /\ split_runs = <<>>

IngestIdle ==
    /\ stage = "off"
    /\ urls_info = <<>>
    /\ pages = <<>>
    /\ url_file = <<>>
    /\ website_pages_urls = <<>>
    /\ error = "none"
    /\ loaded_urls = <<>>

SearchIdle ==
    /\ collection = {}
    /\ request = <<>>
    /\ response = <<>>

LoadIdle ==
    /\ load_stage = "off"
    /\ site_docs = <<>>
    /\ full_txt = <<>>

\* no manager has been asked for yet
ManagerIdle ==
    /\ cache = <<>>
    /\ constructed = 0
    /\ handles = <<>>

Init ==
    /\ documents \in Inputs
    /\ BatchIdle
    /\ LoadIdle
    /\ ManagerIdle
    /\ ChunkIdle
    /\ IngestIdle
    /\ SearchIdle

\* main.py lines 97-99: update_database given an empty list logs the error and
\* returns before it fetches the manager
UpdateDatabaseEmpty ==
    /\ pc = "idle"
    /\ Len(documents) = 0
    /\ pc' = "done"
    /\ outcome' = "skipped"
    /\ UNCHANGED <<documents, run, locals, calls, index, results, in_flight>>
    /\ UNCHANGED notBatch

\* add_or_update_documents as it would be without the early return
StartEmptyFallsThrough ==
    /\ pc = "idle"
    /\ Len(documents) = 0
    /\ pc' = "loop"
    /\ UNCHANGED <<documents, run, locals, calls, index, outcome, results, in_flight>>
    /\ UNCHANGED notBatch

\* lines 32-34: an empty list is logged and the call returns None
StartEmpty ==
    /\ pc = "idle"
    /\ Len(documents) = 0
    /\ pc' = "done"
    /\ outcome' = "none"
    /\ UNCHANGED <<documents, run, locals, calls, index, results, in_flight>>
    /\ UNCHANGED notBatch

\* lines 36-48: validation, deduplication, ids, loop variables
StartRun ==
    /\ pc = "idle"
    /\ Len(documents) > 0
    /\ valid_documents' = deduplicate_documents(remove_invalid_documents(documents))
    /\ ids' = get_ids(valid_documents')
    /\ added_ids' = <<>>
    /\ total_tokens' = 0
    /\ limit_index' = 0
    /\ last_added_index' = 0
    /\ idx' = 0
    /\ pc' = "loop"
    /\ UNCHANGED <<documents, run, calls, index, outcome, results, in_flight>>
    /\ UNCHANGED notBatch

\* the document of the current iteration
CurDoc == valid_documents[idx + 1]

\* the value of limit_index as it would be if every iteration started from 0
NewLimitReset ==
    IF ExceedsBudget(total_tokens, CurDoc.tokens) THEN idx
    ELSE IF idx = Len(valid_documents) - 1 THEN idx
    ELSE 0

\* lines 50-53: the value of limit_index after the two tests
NewLimit ==
    IF ExceedsBudget(total_tokens, CurDoc.tokens) THEN idx
    ELSE IF idx = Len(valid_documents) - 1 THEN idx
    ELSE limit_index

InLoop ==
    /\ pc = "loop"
    /\ idx < Len(valid_documents)

\* line 50: metadata["tokens"] of a document without the key raises KeyError
LoopKeyError ==
    /\ InLoop
    /\ CurDoc.tokens = NoTokens
    /\ pc' = "done"
    /\ outcome' = "KeyError"
    /\ UNCHANGED <<documents, run, locals, calls, index, results, in_flight>>
    /\ UNCHANGED notBatch

\* lines 50-55, 64-65: no commit in this iteration
LoopAccumulate ==
    /\ InLoop
    /\ CurDoc.tokens # NoTokens
    /\ ~(NewLimit > 0)
    /\ limit_index' = NewLimit
    /\ total_tokens' = total_tokens + CurDoc.tokens
    /\ idx' = idx + 1
    /\ UNCHANGED <<documents, pc, run, valid_documents, ids, added_ids,
                   last_added_index, calls, index, outcome, results, in_flight>>
    /\ UNCHANGED notBatch

\* the batch as it would be if the slice went through the current document
BatchDocsThroughIdx == Slice(valid_documents, last_added_index, idx + 1)

\* the batch and the keys handed to add_documents (lines 57-58)
BatchDocs == Slice(valid_documents, last_added_index, idx)

\* the keys as they would be if the slice of ids ignored last_added_index
BatchIdsFromStart == Slice(ids, 0, idx - last_added_index)

BatchIds == Slice(ids, last_added_index, idx)

\* the extension of added_ids as it would be with the whole id list
AllIdsAgain == ids

\* lines 56-60: new_ids, the ids that add_documents returns (those it was given)
new_ids == BatchIds

\* lines 50-59 as they would be if the index call were dispatched and not
\* waited for: the loop goes on while the call is outstanding
LoopCallNoWait ==
    /\ InLoop
    /\ CurDoc.tokens # NoTokens
    /\ NewLimit > 0
    /\ limit_index' = NewLimit
    /\ in_flight' = in_flight + 1
    /\ total_tokens' = 0
    /\ last_added_index' = idx
    /\ idx' = idx + 1
    /\ UNCHANGED <<documents, pc, run, valid_documents, ids, added_ids, calls,
                   index, outcome, results>>
    /\ UNCHANGED notBatch

\* lines 50-59: the tests ask for a commit and add_documents is called
LoopCall ==
    /\ InLoop
    /\ CurDoc.tokens # NoTokens
    /\ NewLimit > 0
    /\ limit_index' = NewLimit
    /\ pc' = "calling"
    /\ in_flight' = in_flight + 1
    /\ UNCHANGED <<documents, run, valid_documents, ids, added_ids, total_tokens,
                   last_added_index, idx, calls, index, outcome, results>>
    /\ UNCHANGED notBatch

\* lines 56-63: the index call returns the ids it was given
LoopCommit ==
    /\ pc = "calling"
    /\ in_flight' = in_flight - 1
    /\ calls' = Append(calls, [documents |-> BatchDocs, ids |-> BatchIds, ok |-> TRUE])
    /\ index' = Upsert(index, BatchIds, BatchDocs)
    /\ added_ids' = added_ids \o new_ids
    /\ total_tokens' = 0
    /\ last_added_index' = idx
    /\ idx' = idx + 1
    /\ pc' = "loop"
    /\ UNCHANGED <<documents, run, valid_documents, ids, limit_index, outcome, results>>
    /\ UNCHANGED notBatch

\* lines 56-59: the index call raises; nothing catches it
LoopCommitFails ==
    /\ pc = "calling"
    /\ in_flight' = in_flight - 1
    /\ calls' = Append(calls, [documents |-> BatchDocs, ids |-> BatchIds, ok |-> FALSE])
    /\ pc' = "done"
    /\ outcome' = "IndexError"
    /\ UNCHANGED <<documents, run, valid_documents, ids, added_ids, total_tokens,
                   limit_index, last_added_index, idx, index, results>>
    /\ UNCHANGED notBatch

\* lines 67-71: the summary divides by len(valid_documents)
Finish ==
    /\ pc = "loop"
    /\ idx = Len(valid_documents)
    /\ pc' = "done"
    /\ outcome' = IF Len(valid_documents) = 0 THEN "ZeroDivisionError" ELSE "returned"
    /\ UNCHANGED <<documents, run, locals, calls, index, results, in_flight>>
    /\ UNCHANGED notBatch

\* the same document list is ingested again; the index persists
Rerun ==
    /\ pc = "done"
    /\ run < MaxRuns
    /\ run' = run + 1
    /\ results' = Append(results, outcome)
    /\ pc' = "idle"
    /\ outcome' = "running"
    /\ calls' = <<>>
    /\ valid_documents' = <<>>
    /\ ids' = <<>>
    /\ added_ids' = <<>>
    /\ total_tokens' = 0
    /\ limit_index' = 0
    /\ last_added_index' = 0
    /\ idx' = 0
    /\ UNCHANGED <<documents, index, in_flight>>
    /\ UNCHANGED notBatch

Next ==
    \/ UpdateDatabaseEmpty
    \/ StartEmpty
    \/ StartRun
    \/ LoopKeyError
    \/ LoopAccumulate
    \/ LoopCall
    \/ LoopCommit
    \/ LoopCommitFails
    \/ Finish
    \/ Rerun

Spec == Init /\ [][Next]_vars

TypeOK ==
    /\ pc \in {"idle", "loop", "calling", "done"}
    /\ run \in 1..MaxRuns
    /\ idx \in 0..Len(valid_documents)
    /\ outcome \in {"running", "skipped", "none", "returned",
                    "ZeroDivisionError", "KeyError", "IndexError"}
    /\ in_flight \in 0..1

(***************************************************************************)
(* Vocabulary of the properties.                                           *)
(***************************************************************************)
RECURSIVE SumTokens(_)
SumTokens(docs) == IF docs = <<>> THEN 0 ELSE Head(docs).tokens + SumTokens(Tail(docs))

\* the documents, and the keys, of the calls cs, concatenated in call order
RECURSIVE CallDocs(_)
CallDocs(cs) == IF cs = <<>> THEN <<>> ELSE Head(cs).documents \o CallDocs(Tail(cs))

RECURSIVE CallIds(_)
CallIds(cs) == IF cs = <<>> THEN <<>> ELSE Head(cs).ids \o CallIds(Tail(cs))

Returned == pc = "done" /\ outcome = "returned"

Raised == outcome \in {"ZeroDivisionError", "KeyError", "IndexError"}

Oversized(doc) == doc.tokens > max_tokens_per_request

NoRepeat(s) == \A i, j \in 1..Len(s) : i # j => s[i] # s[j]

\* the documents that pass validation, computed from the argument
ValidInput == remove_invalid_documents(documents)

\* position of the first document of s that carries the id i
FirstIdx(s, i) == CHOOSE p \in 1..Len(s) : s[p].id = i /\ \A q \in 1..(p - 1) : s[q].id # i

TenOf100k == [k \in 1..10 |-> Doc(k, "x", 100000)]

(***************************************************************************)
(* C1.  When a run over the valid, deduplicated documents ends without an  *)
(* index failure, the documents of the successive add_documents calls,     *)
(* concatenated in call order, are exactly the deduplicated sequence.      *)
(***************************************************************************)
C1_BatchesReconstructSequence ==
    Returned => CallDocs(calls) = valid_documents

(***************************************************************************)
(* C2.  A document whose own token count exceeds the budget is committed   *)
(* as a batch holding that document alone, also when it is the only        *)
(* document of the run.                                                    *)
(***************************************************************************)
C2_OversizedCommittedAlone ==
    Returned =>
        \A k \in 1..Len(valid_documents) :
            Oversized(valid_documents[k]) =>
                \E c \in 1..Len(calls) : calls[c].documents = <<valid_documents[k]>>

(***************************************************************************)
(* C3.  Every batch passed to add_documents has a summed token count of at *)
(* most max_tokens_per_request, except a batch of a single document whose  *)
(* own token count exceeds it.                                             *)
(***************************************************************************)
WithinBudget(docs) ==
    \/ SumTokens(docs) <= max_tokens_per_request
    \/ Len(docs) = 1 /\ Oversized(docs[1])

C3_BatchWithinBudget ==
    \A c \in 1..Len(calls) : WithinBudget(calls[c].documents)

\* a run that committed a batch of several documents and an oversized singleton
C3_Witness ==
    /\ \E c \in 1..Len(calls) :
          Len(calls[c].documents) >= 2 /\ SumTokens(calls[c].documents) > 100000
    /\ \E c \in 1..Len(calls) :
          Len(calls[c].documents) = 1 /\ Oversized(calls[c].documents[1])

(***************************************************************************)
(* C4.  Batching is greedy: a batch is closed only when the next document  *)
(* would push its token sum above the budget or when the sequence ends,    *)
(* and ten documents of 100000 tokens are committed as batches of 3, 3, 3  *)
(* and 1 documents.                                                        *)
(***************************************************************************)
C4_GreedyPacking ==
    Returned =>
        /\ \A c \in 1..(Len(calls) - 1) :
              SumTokens(calls[c].documents) + calls[c + 1].documents[1].tokens
                  > max_tokens_per_request
        /\ documents = TenOf100k =>
              [c \in 1..Len(calls) |-> Len(calls[c].documents)] = <<3, 3, 3, 1>>

(***************************************************************************)
(* C5.  In a run over a non-empty deduplicated sequence, the final batch   *)
(* is committed and contains the last document.                            *)
(***************************************************************************)
C5_LastDocumentCommitted ==
    (Returned /\ Len(valid_documents) > 0) =>
        /\ calls # <<>>
        /\ LET last == calls[Len(calls)].documents
           IN last # <<>> /\ last[Len(last)] = valid_documents[Len(valid_documents)]

(***************************************************************************)
(* C6.  When an add_documents call fails, the run still ends normally      *)
(* (it goes on with the remaining batches and reports the outcome).        *)
(***************************************************************************)
C6_FailureDoesNotAbort ==
    (pc = "done" /\ \E c \in 1..Len(calls) : ~calls[c].ok) => outcome = "returned"

(***************************************************************************)
(* C7.  A non-empty document list without any valid document is a no-op:   *)
(* no index call, and the call returns without raising.                    *)
(***************************************************************************)
C7_NoValidDocumentIsNoOp ==
    (pc = "done" /\ Len(documents) > 0 /\ ValidInput = <<>>) =>
        /\ calls = <<>>
        /\ ~Raised

(***************************************************************************)
(* C8.  deduplicate_documents keeps exactly one document per distinct id,  *)
(* the first one carrying it, in the relative order of the input.          *)
(***************************************************************************)
FirstSeenOf(in, out) ==
    /\ NoRepeat(get_ids(out))
    /\ {in[p].id : p \in 1..Len(in)} = {out[k].id : k \in 1..Len(out)}
    /\ \A k \in 1..Len(out) : out[k] = in[FirstIdx(in, out[k].id)]
    /\ \A k \in 1..(Len(out) - 1) :
          FirstIdx(in, out[k].id) < FirstIdx(in, out[k + 1].id)

C8_DedupKeepsFirst ==
    pc = "loop" => FirstSeenOf(ValidInput, valid_documents)

\* an id carried by two different valid documents, and two ids kept
C8_Witness ==
    /\ pc = "loop"
    /\ Len(valid_documents) >= 2
    /\ \E p, q \in 1..Len(ValidInput) :
          /\ p < q
          /\ ValidInput[p].id = ValidInput[q].id
          /\ ValidInput[p] # ValidInput[q]

(***************************************************************************)
(* C9.  Within one run no id is passed to the index more than once,        *)
(* neither in two calls nor twice in one call.                             *)
(***************************************************************************)
C9_NoIdPassedTwice == NoRepeat(CallIds(calls))

\* an input with a repeated id, whose id has been passed to the index
C9_Witness ==
    /\ Len(calls) >= 2
    /\ \E p, q \in 1..Len(ValidInput) :
          /\ p < q
          /\ ValidInput[p].id = ValidInput[q].id
          /\ \E k \in 1..Len(CallIds(calls)) : CallIds(calls)[k] = ValidInput[p].id

(***************************************************************************)
(* C10.  The index holds one entry per id, and a second run over the same  *)
(* document list (the first one not cut short by an index failure) leaves  *)
(* the set of keys as it was: it overwrites entries and adds none.         *)
(***************************************************************************)
Keys(store) == {store[p].key : p \in 1..Len(store)}

OneEntryPerKey(store) == \A p, q \in 1..Len(store) : p # q => store[p].key # store[q].key

SecondRunAfterCleanFirst ==
    /\ run = 2
    /\ results[1] # "IndexError"

C10_SecondRunAddsNoKey ==
    [][ /\ OneEntryPerKey(index')
        /\ SecondRunAfterCleanFirst =>
              (Keys(index') = Keys(index) /\ Len(index') = Len(index)) ]_vars

\* the second run has committed again what the first run committed
C10_Witness ==
    /\ run = 2
    /\ results = <<"returned">>
    /\ Returned
    /\ Len(calls) >= 2
    /\ Keys(index) = {CallIds(calls)[k] : k \in 1..Len(CallIds(calls))}

(***************************************************************************)
(* C13.  No document whose text is empty or only whitespace is passed to   *)
(* the index, whatever document list add_or_update_documents is given.     *)
(***************************************************************************)
\* str.strip on the contents of the document pool
Strip(content) == IF content = " " THEN "" ELSE content

C13_NoBlankDocumentIndexed ==
    \A c \in 1..Len(calls) :
        \A k \in 1..Len(calls[c].documents) : Strip(calls[c].documents[k].content) # ""

(***************************************************************************)
(* C14.  A document with missing metadata (no id, no token count) is       *)
(* skipped; a missing metadata field never raises out of the run.          *)
(***************************************************************************)
LacksMetadata(doc) == doc.id = NoId \/ doc.tokens = NoTokens

C14_MissingMetadataNeverRaises ==
    (pc = "done" /\ \E k \in 1..Len(documents) : LacksMetadata(documents[k])) =>
        outcome # "KeyError"

(***************************************************************************)
(* C15.  Given an empty document list, update_database and                 *)
(* add_or_update_documents make no index call, commit nothing and return   *)
(* without raising.                                                        *)
(***************************************************************************)
C15_EmptyListIsNoOp ==
    (pc = "done" /\ documents = <<>>) =>
        /\ outcome \in {"skipped", "none"}
        /\ calls = <<>>
        /\ index = <<>>
        /\ added_ids = <<>>
        /\ in_flight = 0

\* the empty list went through add_or_update_documents and then update_database
C15_Witness ==
    /\ pc = "done"
    /\ documents = <<>>
    /\ results = <<"none">>
    /\ outcome = "skipped"

(***************************************************************************)
(* C17.  The ids collected in added_ids (the return value) are exactly the *)
(* ids of the documents written to the index during the call, so their     *)
(* number is the number of documents committed.                            *)
(***************************************************************************)
RECURSIVE CommittedIds(_)
CommittedIds(cs) ==
    IF cs = <<>> THEN <<>>
    ELSE (IF Head(cs).ok THEN Head(cs).ids ELSE <<>>) \o CommittedIds(Tail(cs))

C17_AddedIdsAreCommittedIds ==
    /\ added_ids = CommittedIds(calls)
    /\ run = 1 =>
          /\ {added_ids[k] : k \in 1..Len(added_ids)} = Keys(index)
          /\ Len(added_ids) = Len(index)

\* a first run that returned after several commits
C17_Witness ==
    /\ Returned
    /\ run = 1
    /\ Len(calls) >= 2
    /\ Len(added_ids) >= 3

(***************************************************************************)
(* C18.  Batches are committed in the order of the deduplicated sequence,  *)
(* one call per batch, and in every call the i-th key is the id of the     *)
(* i-th document.                                                          *)
(***************************************************************************)
KeysMatchDocuments(c) ==
    /\ Len(c.ids) = Len(c.documents)
    /\ \A i \in 1..Len(c.documents) : c.ids[i] = c.documents[i].id

C18_BatchesInOrderKeysAligned ==
    /\ \A c \in 1..Len(calls) : KeysMatchDocuments(calls[c])
    /\ CallDocs(calls) = SubSeq(valid_documents, 1, Len(CallDocs(calls)))

\* a batch of several documents followed by another batch
C18_Witness ==
    /\ Len(calls) >= 2
    /\ Len(calls[1].documents) >= 2

(***************************************************************************)
(* C19.  At most one add_documents call is in flight at any time: a call   *)
(* starts only after the previous one has returned or failed.              *)
(***************************************************************************)
C19_OneCallInFlight == in_flight <= 1

\* a call is in flight after an earlier call of the run has returned
C19_Witness ==
    /\ pc = "calling"
    /\ in_flight = 1
    /\ Len(calls) >= 1

(***************************************************************************)
(* C28.  With no index failure, the documents passed to the index are at   *)
(* every moment a prefix of the deduplicated sequence; when the call has   *)
(* returned they are exactly its first n-1 documents if n >= 2, and no     *)
(* index call was made if n = 1.                                           *)
(***************************************************************************)
AllCallsOk == \A c \in 1..Len(calls) : calls[c].ok

C28_AllButLastPassed ==
    AllCallsOk =>
        /\ \E m \in 0..Len(valid_documents) :
              CallDocs(calls) = SubSeq(valid_documents, 1, m)
        /\ Returned /\ Len(valid_documents) >= 2 =>
              CallDocs(calls) = SubSeq(valid_documents, 1, Len(valid_documents) - 1)
        /\ Returned /\ Len(valid_documents) = 1 => calls = <<>>

\* a returned run over three documents that passed the first two
C28_Witness ==
    /\ Returned
    /\ Len(valid_documents) = 3
    /\ CallDocs(calls) = SubSeq(valid_documents, 1, 2)

(***************************************************************************)
(* C29.  Once a batch of the run has been committed, limit_index is        *)
(* positive and the running token sum is 0 for the rest of the loop, and   *)
(* every index call after the first carries exactly one document.          *)
(***************************************************************************)
FirstBatchCommitted == Len(calls) >= 1 /\ calls[1].ok

C29_SingletonsAfterFirstBatch ==
    FirstBatchCommitted =>
        /\ limit_index > 0
        /\ total_tokens = 0
        /\ \A c \in 2..Len(calls) : Len(calls[c].documents) = 1

\* after the first batch, two documents that fit one request together went
\* out one per call
C29_Witness ==
    /\ Returned
    /\ Len(calls) >= 3
    /\ SumTokens(calls[2].documents \o calls[3].documents) <= max_tokens_per_request

(***************************************************************************)
(* split_documents (modules/text_handler.py).  A string is a sequence of   *)
(* characters; a word without blank or hyphen counts as one character.     *)
(* A chunk is a record                                                     *)
(*   type, source : the metadata values, Absent when the key is missing    *)
(*   page_content : the text                                               *)
(*   id           : metadata["id"], Absent until split_documents sets it   *)
(* The hash is taken as injective: md5(s).hexdigest() is modelled by s.    *)
(***************************************************************************)
\* longest list of chunks handed over by the text splitter
MaxChunks == 2

Absent == <<"<absent>">>

Whitespace == {" "}

\* the values uuid.uuid4() may return
Uuids == {"uuid-1", "uuid-2"}

ChunkTypes == {Absent, <<"rules">>}
ChunkSources == {Absent, <<"u">>, <<"u", "-", "a">>}
ChunkContents == {<<>>, <<" ">>, <<"a">>, <<" ", "a">>, <<"b">>, <<"a", "-", "b">>}

Chunk(t, u, c) == [type |-> t, source |-> u, page_content |-> c, id |-> Absent]

ChunkPool == {Chunk(t, u, c) : t \in ChunkTypes, u \in ChunkSources, c \in ChunkContents}

\* str.strip()
RECURSIVE LStrip(_)
LStrip(str) ==
    IF str # <<>> /\ Head(str) \in Whitespace THEN LStrip(Tail(str)) ELSE str

RECURSIVE RStrip(_)
RStrip(str) ==
    IF str # <<>> /\ str[Len(str)] \in Whitespace
    THEN RStrip(SubSeq(str, 1, Len(str) - 1))
    ELSE str

StripChars(str) == RStrip(LStrip(str))

\* lines 213-217: the test that keeps a chunk
HasContent(chunk) ==
    /\ chunk.page_content # <<>>
    /\ Len(StripChars(chunk.page_content)) > 0

RECURSIVE KeepWithContent(_)
KeepWithContent(chunks) ==
    IF chunks = <<>> THEN <<>>
    ELSE IF HasContent(Head(chunks))
         THEN <<Head(chunks)>> \o KeepWithContent(Tail(chunks))
         ELSE KeepWithContent(Tail(chunks))

\* line 228: f"{type}-{source}-{content}"
hash_string(type, source, content) == type \o <<"-">> \o source \o <<"-">> \o content

\* lines 231-232: f"doc_{url_hash}"
DocId(str) == <<"doc_">> \o str

\* lines 221-232 for one chunk; uuid is the value uuid.uuid4() returns
AssignId(chunk, uuid) ==
    LET source == IF chunk.source = Absent THEN <<uuid>> ELSE chunk.source
        type == IF chunk.type = Absent THEN <<"Unknown_Type">> ELSE chunk.type
        content == StripChars(chunk.page_content)
    IN [chunk EXCEPT !.id = DocId(hash_string(type, source, content))]

\* lines 212-232 and 241; uuids[k] is drawn for the k-th kept chunk
split_documents(chunks, uuids) ==
    LET kept == KeepWithContent(chunks)
    IN [k \in 1..Len(kept) |-> AssignId(kept[k], uuids[k])]

InitChunk ==
    /\ split_input \in SeqsUpTo(ChunkPool, MaxChunks)
    /\ split_runs = <<>>
    /\ documents = <<>>
    /\ BatchIdle
    /\ LoadIdle
    /\ ManagerIdle
    /\ IngestIdle
    /\ SearchIdle

\* split_documents is called on the same documents once more
SplitDocuments ==
    /\ Len(split_runs) < MaxRuns
    /\ \E uuids \in [1..Len(KeepWithContent(split_input)) -> Uuids] :
          split_runs' = Append(split_runs, split_documents(split_input, uuids))
    /\ UNCHANGED <<split_input, batchVars, ingestVars, searchVars, loadVars,
                   managerVars>>

NextChunk == SplitDocuments

SpecChunk == InitChunk /\ [][NextChunk]_vars

(***************************************************************************)
(* C11.  Two runs of split_documents on identical input assign identical   *)
(* ids to corresponding chunks, also when the metadata has no source or    *)
(* no type.                                                                *)
(***************************************************************************)
IdsOf(chunks) == [k \in 1..Len(chunks) |-> chunks[k].id]

C11_IdsDeterministic ==
    Len(split_runs) >= 2 => IdsOf(split_runs[1]) = IdsOf(split_runs[2])

(***************************************************************************)
(* C12.  Two chunks that differ in type, in source or in trimmed text are  *)
(* given different ids.                                                    *)
(***************************************************************************)
Triple(chunk) == <<chunk.type, chunk.source, StripChars(chunk.page_content)>>

C12_DistinctTriplesDistinctIds ==
    \A r \in 1..Len(split_runs) :
        \A i, j \in 1..Len(split_runs[r]) :
            Triple(split_runs[r][i]) # Triple(split_runs[r][j])
                => split_runs[r][i].id # split_runs[r][j].id

(***************************************************************************)
(* run_all_commands (main.py) up to the point where it ends.  Every path   *)
(* through generate_documents_from_sources raises at its first log         *)
(* message, so the steps of run_all_commands after step 2.1 are never      *)
(* reached.                                                                *)
(***************************************************************************)
\* longest list of URLs that the sitemap extraction returns
MaxSitemap == 2

\* the value of a Python name bound to None
None == <<"<none>">>

\* config.WEBSITE_URLS, the static seed list (none of them is blacklisted)
WEBSITE_URLS == <<"https://ssl.robocup.org/">>

\* URLs a sitemap may list; the last one contains a blacklisted keyword
SitemapUrls == {"https://ssl.robocup.org/divisions/",
                "https://ssl.robocup.org/contact/",
                "https://ssl.robocup.org/rules/"}

AllUrls == SitemapUrls \cup {WEBSITE_URLS[k] : k \in 1..Len(WEBSITE_URLS)}

\* website_sources.py lines 137-138: a keyword or a regex of the blacklist matches
Blacklisted(url) == url = "https://ssl.robocup.org/rules/"

Range(seq) == {seq[k] : k \in 1..Len(seq)}

\* the lists that list(set(...)) may return for the set S
Orders(S) == {f \in [1..Cardinality(S) -> S] : \A i, j \in 1..Cardinality(S) : i # j => f[i] # f[j]}

RECURSIVE NotBlacklisted(_)
NotBlacklisted(urls) ==
    IF urls = <<>> THEN <<>>
    ELSE IF Blacklisted(Head(urls)) THEN NotBlacklisted(Tail(urls))
         ELSE <<Head(urls)>> \o NotBlacklisted(Tail(urls))

\* website_sources.py lines 127-141; website_urls is what list(set(all_urls)) returned
process_urls(website_urls) == NotBlacklisted(website_urls)

RECURSIVE LoadedCount(_, _)
LoadedCount(urls, perUrl) ==
    IF urls = <<>> THEN 0 ELSE perUrl[Head(urls)] + LoadedCount(Tail(urls), perUrl)

\* text_handler.py lines 108-158: what load_site hands back, or the exception
\* it raises: the average at line 156 divides by len(docs)
load_site(urls, perUrl) ==
    IF Len(urls) = 0 THEN "empty_lists"
    ELSE IF LoadedCount(urls, perUrl) = 0 THEN "ZeroDivisionError"
    ELSE "docs_and_int"

\* main.py lines 68-76: how generate_documents_from_sources ends.  list(set(None))
\* raises TypeError; the average at line 75 is sum(x) / len(x) where x is either
\* the empty list or the integer total_tokens that load_site returns
GenerateOutcome(urls, perUrl) ==
    IF urls = None THEN "TypeError"
    ELSE LET loaded == load_site(urls, perUrl)
         IN IF loaded = "empty_lists" THEN "ZeroDivisionError"
            ELSE IF loaded = "ZeroDivisionError" THEN "ZeroDivisionError"
            ELSE "TypeError"

InitIngest ==
    /\ stage = "start"
    /\ urls_info \in SeqsUpTo(SitemapUrls, MaxSitemap)
    /\ pages \in [AllUrls -> 0..1]
    /\ url_file \in {<<>>, <<"https://ssl.robocup.org/contact/">>}
    /\ website_pages_urls = <<>>
    /\ error = "none"
    /\ loaded_urls = <<>>
    /\ documents = <<>>
    /\ BatchIdle
    /\ LoadIdle
    /\ ManagerIdle
    /\ ChunkIdle
    /\ SearchIdle

\* the same lines as they would be without the early return: the seed URLs
\* alone are filtered, written to the file and returned
SourcesUpdatedFromSeeds ==
    /\ stage = "start"
    /\ Len(urls_info) = 0
    /\ website_pages_urls' = process_urls(WEBSITE_URLS)
    /\ url_file' = process_urls(WEBSITE_URLS)
    /\ stage' = "step2"
    /\ UNCHANGED <<urls_info, pages, error, loaded_urls, batchVars, chunkVars,
                   searchVars, loadVars, managerVars>>

\* main.py lines 30-34: nothing extracted, the function returns None
SourcesNotUpdated ==
    /\ stage = "start"
    /\ Len(urls_info) = 0
    /\ website_pages_urls' = None
    /\ stage' = "step2"
    /\ UNCHANGED <<urls_info, pages, url_file, error, loaded_urls, batchVars, chunkVars,
                   searchVars, loadVars, managerVars>>

\* main.py lines 36-61: the filtered URLs are written to the file and returned
SourcesUpdated ==
    /\ stage = "start"
    /\ Len(urls_info) > 0
    /\ \E website_urls \in Orders(Range(WEBSITE_URLS) \cup Range(urls_info)) :
          /\ website_pages_urls' = process_urls(website_urls)
          /\ url_file' = process_urls(website_urls)
    /\ stage' = "step2"
    /\ UNCHANGED <<urls_info, pages, error, loaded_urls, batchVars, chunkVars,
                   searchVars, loadVars, managerVars>>

\* main.py lines 137-144 and 68-76: step 2.1 raises out of run_all_commands.
\* Line 68 rebuilds the URL list from a set, load_site visits it in that order
GenerateWebsiteDocuments ==
    /\ stage = "step2"
    /\ IF website_pages_urls = None
       THEN /\ loaded_urls' = <<>>
            /\ error' = GenerateOutcome(None, pages)
       ELSE \E urls \in Orders(Range(website_pages_urls)) :
               /\ loaded_urls' = urls
               /\ error' = GenerateOutcome(urls, pages)
    /\ stage' = "raised"
    /\ UNCHANGED <<urls_info, pages, url_file, website_pages_urls, batchVars, chunkVars,
                   searchVars, loadVars, managerVars>>

NextIngest ==
    \/ SourcesNotUpdated
    \/ SourcesUpdated
    \/ GenerateWebsiteDocuments

SpecIngest == InitIngest /\ [][NextIngest]_vars

(***************************************************************************)
(* C16.  An ingestion run always ends normally and never in an uncaught    *)
(* exception, also when the sitemap extraction returns no URLs or a URL    *)
(* list loads zero documents.                                              *)
(***************************************************************************)
C16_RunNeverRaises == error = "none"

(***************************************************************************)
(* C24.  The order in which the pages are loaded, and so the order in      *)
(* which their chunks reach the deduplicator, is a function of the input   *)
(* URL lists that keeps first-seen order: the seed URLs, then the          *)
(* extracted ones, each at its first occurrence.                           *)
(***************************************************************************)
RECURSIVE FirstSeenFrom(_, _)
FirstSeenFrom(urls, seen) ==
    IF urls = <<>> THEN <<>>
    ELSE IF Head(urls) \in seen THEN FirstSeenFrom(Tail(urls), seen)
         ELSE <<Head(urls)>> \o FirstSeenFrom(Tail(urls), seen \cup {Head(urls)})

FirstSeen(urls) == FirstSeenFrom(urls, {})

C24_LoadOrderIsFirstSeen ==
    (stage = "raised" /\ website_pages_urls # None) =>
        loaded_urls = NotBlacklisted(FirstSeen(WEBSITE_URLS \o urls_info))

(***************************************************************************)
(* C30.  update_website_sources writes the URL file only when the sitemap  *)
(* extraction produced at least one URL, and then the file holds the list  *)
(* it returns; when the extraction yields nothing the file keeps its       *)
(* content and the function returns None.                                  *)
(***************************************************************************)
C30_FileWrittenOnlyWhenExtracted ==
    [][/\ url_file' # url_file => Len(urls_info) > 0
       /\ (stage = "start" /\ stage' = "step2") =>
              IF Len(urls_info) = 0
              THEN url_file' = url_file /\ website_pages_urls' = None
              ELSE url_file' = website_pages_urls' /\ website_pages_urls' # None]_vars

\* nothing was extracted and the file written by an earlier run is still there
C30_Witness ==
    /\ stage = "step2"
    /\ urls_info = <<>>
    /\ website_pages_urls = None
    /\ url_file = <<"https://ssl.robocup.org/contact/">>

(***************************************************************************)
(* ssl_search_tool (tools/ssl_search.py).  The index holds chunks with the *)
(* type they were ingested under; score is the relevance of the chunk to   *)
(* the query, in hundredths.                                               *)
(***************************************************************************)
\* largest k of a request
MaxK == 3

\* the "type" metadata that run_all_commands gives to the documents of each
\* source (main.py lines 140, 150, 160)
IngestType ==
    [WEBSITE |-> "website_page", RULES |-> "rules", REPOSITORY |-> "repository"]

\* the members of SSLDocumentSource and their values (ssl_search.py lines 14-16)
SSLDocumentSource == [WEBSITE |-> "website_pages", RULES |-> "rules"]

NoFilter == "none"

\* the chunks an ingestion may have left in the index
IndexedChunks ==
    { [id |-> 1, type |-> IngestType.RULES, score |-> 90],
      [id |-> 2, type |-> IngestType.RULES, score |-> 50],
      [id |-> 3, type |-> IngestType.WEBSITE, score |-> 95],
      [id |-> 4, type |-> IngestType.REPOSITORY, score |-> 60] }

Thresholds == {0, 70}

\* the chunks of S by descending score
RECURSIVE Ranked(_)
Ranked(S) ==
    IF S = {} THEN <<>>
    ELSE LET best == CHOOSE c \in S : \A d \in S : d.score <= c.score
         IN <<best>> \o Ranked(S \ {best})

\* the documents as they would be if the score were not compared
AtLeastKeepsAll(docs, threshold) == docs

\* the documents of docs that score at least threshold, in the order of docs
RECURSIVE AtLeast(_, _)
AtLeast(docs, threshold) ==
    IF docs = <<>> THEN <<>>
    ELSE IF Head(docs).score >= threshold
         THEN <<Head(docs)>> \o AtLeast(Tail(docs), threshold)
         ELSE AtLeast(Tail(docs), threshold)

\* similarity_search_with_relevance_scores: the k most relevant chunks whose
\* type metadata equals the filter, without those below score_threshold
similarity_search_with_relevance_scores(coll, k, filter, score_threshold) ==
    LET matching == IF filter = NoFilter THEN coll ELSE {c \in coll : c.type = filter}
        ranked == Ranked(matching)
        top == SubSeq(ranked, 1, IF k < Len(ranked) THEN k ELSE Len(ranked))
    IN AtLeast(top, score_threshold)

\* similarity_search: the k most relevant chunks, no filter given
similarity_search(coll, k) ==
    LET ranked == Ranked(coll)
    IN SubSeq(ranked, 1, IF k < Len(ranked) THEN k ELSE Len(ranked))

\* ssl_search.py lines 64-68: the filter argument of the index call
FilterSent(source) ==
    IF source = NoFilter THEN NoFilter ELSE SSLDocumentSource[source]

\* what the caller of a search tool observes: tool is the tool called, calls
\* the number of index calls it made, failed whether the index call raised,
\* raised whether the tool raised, documents the list it returned
NoResponse ==
    [tool |-> "none", calls |-> 0, filter |-> NoFilter, failed |-> FALSE,
     raised |-> FALSE, documents |-> <<>>]

InitSearch ==
    /\ collection \in SUBSET IndexedChunks
    /\ request \in [k : 1..MaxK,
                    document_source_filter : DOMAIN SSLDocumentSource \cup {NoFilter},
                    threshold : Thresholds]
    /\ response = NoResponse
    /\ documents = <<>>
    /\ BatchIdle
    /\ LoadIdle
    /\ ManagerIdle
    /\ ChunkIdle
    /\ IngestIdle

\* ssl_search.py lines 55-92
ssl_search_tool ==
    /\ response.tool = "none"
    /\ LET filter == FilterSent(request.document_source_filter)
           result == similarity_search_with_relevance_scores(
                         collection, request.k, filter, request.threshold)
       IN response' = [tool |-> "ssl_search_tool",
                       calls |-> 1,
                       filter |-> filter,
                       failed |-> FALSE,
                       raised |-> FALSE,
                       documents |-> AtLeast(result, request.threshold)]
    /\ UNCHANGED <<collection, request, batchVars, chunkVars, ingestVars,
                   loadVars, managerVars>>

\* the same lines as they would be with the index call wrapped in a handler
\* that returns the empty list
ssl_search_tool_swallows ==
    /\ response.tool = "none"
    /\ response' = [tool |-> "ssl_search_tool",
                    calls |-> 1,
                    filter |-> FilterSent(request.document_source_filter),
                    failed |-> TRUE,
                    raised |-> FALSE,
                    documents |-> <<>>]
    /\ UNCHANGED <<collection, request, batchVars, chunkVars, ingestVars,
                   loadVars, managerVars>>

\* ssl_search.py lines 61-70: the index call raises; no handler surrounds it,
\* the exception leaves the tool
ssl_search_tool_raises ==
    /\ response.tool = "none"
    /\ response' = [tool |-> "ssl_search_tool",
                    calls |-> 1,
                    filter |-> FilterSent(request.document_source_filter),
                    failed |-> TRUE,
                    raised |-> TRUE,
                    documents |-> <<>>]
    /\ UNCHANGED <<collection, request, batchVars, chunkVars, ingestVars,
                   loadVars, managerVars>>

\* mcp_server.py lines 53-62, filter left at its default None
retrieve_k_relevant_documents ==
    /\ response.tool = "none"
    /\ response' = [tool |-> "retrieve_k_relevant_documents",
                    calls |-> 1,
                    filter |-> NoFilter,
                    failed |-> FALSE,
                    raised |-> FALSE,
                    documents |-> similarity_search(collection, request.k)]
    /\ UNCHANGED <<collection, request, batchVars, chunkVars, ingestVars,
                   loadVars, managerVars>>

\* mcp_server.py line 58: the index call raises; no handler surrounds it
retrieve_k_relevant_documents_raises ==
    /\ response.tool = "none"
    /\ response' = [tool |-> "retrieve_k_relevant_documents",
                    calls |-> 1,
                    filter |-> NoFilter,
                    failed |-> TRUE,
                    raised |-> TRUE,
                    documents |-> <<>>]
    /\ UNCHANGED <<collection, request, batchVars, chunkVars, ingestVars,
                   loadVars, managerVars>>

NextSearch ==
    \/ ssl_search_tool
    \/ ssl_search_tool_raises
    \/ retrieve_k_relevant_documents
    \/ retrieve_k_relevant_documents_raises

\* ssl_search_tool has returned a list
Searched == response.tool = "ssl_search_tool" /\ ~response.raised

SpecSearch == InitSearch /\ [][NextSearch]_vars

(***************************************************************************)
(* C20.  With a source filter, a search returns only chunks of the         *)
(* filter's type, the filter value sent to the index is the type value     *)
(* under which that source was ingested, and so the most relevant chunk    *)
(* ingested for that source is returned when it reaches the threshold.     *)
(***************************************************************************)
C20_FilterMatchesIngestedType ==
    (Searched /\ request.document_source_filter # NoFilter) =>
        LET type == IngestType[request.document_source_filter]
            ofType == {c \in collection : c.type = type}
        IN /\ response.filter = type
           /\ \A k \in 1..Len(response.documents) : response.documents[k].type = type
           /\ \A c \in ofType :
                 (c.score >= request.threshold /\ \A d \in ofType : d.score <= c.score)
                     => \E k \in 1..Len(response.documents) : response.documents[k] = c

(***************************************************************************)
(* C21.  Every document that ssl_search_tool returns scores at least the   *)
(* requested threshold and is one of at most k; chunks below the threshold *)
(* are left out, so fewer than k documents, or none, may come back.        *)
(***************************************************************************)
C21_ReturnedReachThreshold ==
    Searched =>
        /\ Len(response.documents) <= request.k
        /\ \A i \in 1..Len(response.documents) :
              /\ response.documents[i] \in collection
              /\ response.documents[i].score >= request.threshold

\* the index holds k chunks or more, the search without filter returned
\* fewer than k, and one of the chunks left out is below the threshold
C21_Witness ==
    /\ Searched
    /\ request.document_source_filter = NoFilter
    /\ Cardinality(collection) >= request.k
    /\ Len(response.documents) < request.k
    /\ \E c \in collection : c.score < request.threshold

(***************************************************************************)
(* C22.  A search returns exactly the chunks that are among the k most     *)
(* relevant of the requested source and score at least the threshold, by   *)
(* descending relevance and at most k of them; over two rules chunks       *)
(* scoring 0.9 and 0.5 and a website chunk scoring 0.95, the search with   *)
(* k = 3, filter rules and threshold 0.7 returns exactly the 0.9 chunk.    *)
(***************************************************************************)
OfSource(source) ==
    IF source = NoFilter THEN collection
    ELSE {c \in collection : c.type = IngestType[source]}

TopKReachingThreshold(S, k, threshold) ==
    {c \in S : /\ c.score >= threshold
               /\ Cardinality({d \in S : d.score > c.score}) < k}

C22_TopKOfSourceInOrder ==
    Searched =>
        LET expected == TopKReachingThreshold(OfSource(request.document_source_filter),
                                              request.k, request.threshold)
            returned == response.documents
        IN /\ Range(returned) = expected
           /\ Len(returned) = Cardinality(expected)
           /\ Len(returned) <= request.k
           /\ \A i, j \in 1..Len(returned) :
                 i < j => returned[i].score >= returned[j].score
           /\ ( /\ collection = {c \in IndexedChunks : c.id \in {1, 2, 3}}
                /\ request = [k |-> 3, document_source_filter |-> "RULES",
                              threshold |-> 70] )
                 => returned = <<[id |-> 1, type |-> "rules", score |-> 90]>>

(***************************************************************************)
(* C23.  When the index call fails, a search tool has made one index call  *)
(* and no other, and it raises to its caller; a tool that returns a list,  *)
(* empty or not, has not met an index failure.                             *)
(***************************************************************************)
C23_FailureRaisedOnce ==
    /\ response.raised = response.failed
    /\ response.failed => response.calls = 1 /\ response.documents = <<>>

\* ssl_search_tool has met a failure of a non-empty index
C23_Witness ==
    /\ response.failed
    /\ response.tool = "ssl_search_tool"
    /\ collection # {}

(***************************************************************************)
(* VectorStoreManager() (modules/db_management.py lines 15-28).  The class *)
(* is wrapped in lru_cache(maxsize=1): a call looks its arguments up in    *)
(* the cache and runs __init__ only on a miss.  Every call in the          *)
(* repository passes no argument.  A manager is a record                   *)
(*   instance              : which object it is                            *)
(*   vector_store_instance : the Chroma object its __init__ created        *)
(***************************************************************************)
\* largest number of VectorStoreManager() calls in one process
MaxCalls == 4

\* line 15: maxsize
lru_cache_maxsize == 1

\* the cache key of a call without arguments
DefaultArgs == <<>>

\* the functions that call VectorStoreManager()
Callers == {"update_database", "test_vector_store",
            "retrieve_k_relevant_documents", "ssl_search"}

\* the lookup as it would be without the decorator
CacheNeverHit(c, key) == FALSE

CacheHit(c, key) == \E i \in 1..Len(c) : c[i].key = key

Cached(c, key) == (CHOOSE e \in Range(c) : e.key = key).manager

\* a miss stores the result and drops the oldest entry of a full cache
CachePut(c, key, manager) ==
    LET entries == Append(c, [key |-> key, manager |-> manager])
    IN IF Len(entries) > lru_cache_maxsize THEN Tail(entries) ELSE entries

InitManager ==
    /\ ManagerIdle
    /\ documents = <<>>
    /\ BatchIdle
    /\ LoadIdle
    /\ ChunkIdle
    /\ IngestIdle
    /\ SearchIdle

\* lines 15-28: a miss, __init__ runs and creates the Chroma object
VectorStoreManagerConstructs ==
    /\ Len(handles) < MaxCalls
    /\ ~CacheHit(cache, DefaultArgs)
    /\ constructed' = constructed + 1
    /\ LET manager == [instance |-> constructed + 1,
                       vector_store_instance |-> constructed + 1]
       IN /\ cache' = CachePut(cache, DefaultArgs, manager)
          /\ \E caller \in Callers :
                handles' = Append(handles, [caller |-> caller, manager |-> manager])
    /\ UNCHANGED <<batchVars, chunkVars, ingestVars, searchVars, loadVars>>

\* line 15: a hit, the cached manager is returned and __init__ does not run
VectorStoreManagerCached ==
    /\ Len(handles) < MaxCalls
    /\ CacheHit(cache, DefaultArgs)
    /\ \E caller \in Callers :
          handles' = Append(handles, [caller |-> caller,
                                      manager |-> Cached(cache, DefaultArgs)])
    /\ UNCHANGED <<cache, constructed, batchVars, chunkVars, ingestVars, searchVars,
                   loadVars>>

NextManager ==
    \/ VectorStoreManagerConstructs
    \/ VectorStoreManagerCached

SpecManager == InitManager /\ [][NextManager]_vars

(***************************************************************************)
(* C27.  Within one process every VectorStoreManager() call returns the    *)
(* same manager, hence the same store object, and the manager is           *)
(* constructed once, whatever functions ask for it and in whatever order.  *)
(***************************************************************************)
C27_OneManagerPerProcess ==
    /\ constructed <= 1
    /\ \A i, j \in 1..Len(handles) :
          /\ handles[i].manager.instance = handles[j].manager.instance
          /\ handles[i].manager.vector_store_instance =
                handles[j].manager.vector_store_instance

\* an ingestion call and a retrieval call were both handed a manager
C27_Witness ==
    /\ Len(handles) >= 3
    /\ \E i, j \in 1..Len(handles) :
          /\ i < j
          /\ handles[i].caller = "update_database"
          /\ handles[j].caller = "retrieve_k_relevant_documents"

(***************************************************************************)
(* load_site, save_full_txt and split_documents (modules/text_handler.py)  *)
(* applied one after the other to the pages of one source, in the order of *)
(* generate_documents_from_sources (main.py lines 72-89).  The text of a   *)
(* page is a sequence of passages separated by blank lines; a document is  *)
(* a chunk record with one more field, tokens, for metadata["tokens"].     *)
(***************************************************************************)
\* largest number of pages loaded for one source
MaxPages == 2

\* largest number of passages of a page
MaxPassages == 3

\* what count_tokens returns for one passage
PassageTokens == 3000

\* text_handler.py line 204
chunk_size == 8000

chunk_overlap == 500

\* text_handler.py line 178: "=" * 80
separator_width == 80

Passages == {"a", "b"}

PageTexts == UNION {[1..n -> Passages] : n \in 1..MaxPassages}

\* what the loader yields for a URL: the URL and the extracted text
Pages == [source : ChunkSources \ {Absent}, page_content : PageTexts]

\* text_handler.py lines 17-29, the separators between passages not counted
count_tokens(text) == PassageTokens * Len(text)

\* lines 132-137 and 144-151: the document load_site makes of a page
LoadedDocument(page) ==
    [type |-> Absent,
     source |-> page.source,
     page_content |-> page.page_content,
     id |-> Absent,
     tokens |-> count_tokens(page.page_content)]

\* lines 167-178: the entries written for the documents docs
save_full_txt(docs) ==
    [i \in 1..Len(docs) |->
        [number |-> i,
         source |-> IF docs[i].source = Absent THEN <<"Unknown URL">> ELSE docs[i].source,
         id |-> IF docs[i].id = Absent THEN <<"Unknown ID">> ELSE docs[i].id,
         type |-> IF docs[i].type = Absent THEN <<"Unknown Type">> ELSE docs[i].type,
         content |-> docs[i].page_content,
         separator |-> [k \in 1..separator_width |-> "="]]]

\* the number of leading passages of text that fit one chunk (at least one)
FitLen(text) ==
    CHOOSE n \in 1..Len(text) :
        /\ n = 1 \/ count_tokens(SubSeq(text, 1, n)) <= chunk_size
        /\ n = Len(text) \/ count_tokens(SubSeq(text, 1, n + 1)) > chunk_size

\* the number of trailing passages of a chunk of n passages that the next
\* chunk repeats: as many as fit chunk_overlap
CarryLen(n) ==
    CHOOSE m \in 0..(n - 1) :
        /\ PassageTokens * m <= chunk_overlap
        /\ m = n - 1 \/ PassageTokens * (m + 1) > chunk_overlap

\* line 208 for one text: the texts of its chunks
RECURSIVE SplitText(_)
SplitText(text) ==
    IF text = <<>> THEN <<>>
    ELSE LET n == FitLen(text)
         IN IF n = Len(text) THEN <<text>>
            ELSE <<SubSeq(text, 1, n)>>
                     \o SplitText(SubSeq(text, n - CarryLen(n) + 1, Len(text)))

\* line 208: every chunk gets a copy of the metadata of its document
RECURSIVE TextSplitter(_)
TextSplitter(docs) ==
    IF docs = <<>> THEN <<>>
    ELSE LET texts == SplitText(Head(docs).page_content)
         IN [k \in 1..Len(texts) |-> [Head(docs) EXCEPT !.page_content = texts[k]]]
                \o TextSplitter(Tail(docs))

InitLoad ==
    /\ load_stage = "start"
    /\ site_docs = <<>>
    /\ full_txt = <<>>
    /\ documents = <<>>
    /\ BatchIdle
    /\ ManagerIdle
    /\ ChunkIdle
    /\ IngestIdle
    /\ SearchIdle

\* text_handler.py lines 96-158: the pages are loaded and their tokens counted
LoadSite ==
    /\ load_stage = "start"
    /\ \E pages_loaded \in SeqsUpTo(Pages, MaxPages) :
          /\ Len(pages_loaded) > 0
          /\ site_docs' = [k \in 1..Len(pages_loaded) |-> LoadedDocument(pages_loaded[k])]
    /\ load_stage' = "loaded"
    /\ UNCHANGED <<full_txt, batchVars, chunkVars, ingestVars, searchVars, managerVars>>

\* main.py lines 78-82: the type of the source is put in every document
SetMetadata ==
    /\ load_stage = "loaded"
    /\ \E source \in DOMAIN IngestType :
          site_docs' = [k \in 1..Len(site_docs) |->
                           [site_docs[k] EXCEPT !.type = <<IngestType[source]>>]]
    /\ load_stage' = "typed"
    /\ UNCHANGED <<full_txt, batchVars, chunkVars, ingestVars, searchVars, managerVars>>

\* main.py lines 84-86: the full-text file is written
SaveFullTxt ==
    /\ load_stage = "typed"
    /\ full_txt' = save_full_txt(site_docs)
    /\ load_stage' = "saved"
    /\ UNCHANGED <<site_docs, batchVars, chunkVars, ingestVars, searchVars, managerVars>>

\* main.py line 89 and text_handler.py lines 183-241: the documents are cut
\* into chunks and the chunks are given their ids
SplitLoaded ==
    /\ load_stage = "saved"
    /\ LET chunks == TextSplitter(site_docs)
       IN /\ split_input' = chunks
          /\ \E uuids \in [1..Len(KeepWithContent(chunks)) -> Uuids] :
                split_runs' = Append(split_runs, split_documents(chunks, uuids))
    /\ load_stage' = "split"
    /\ UNCHANGED <<site_docs, full_txt, batchVars, ingestVars, searchVars, managerVars>>

NextLoad ==
    \/ LoadSite
    \/ SetMetadata
    \/ SaveFullTxt
    \/ SplitLoaded

SpecLoad == InitLoad /\ [][NextLoad]_vars

(***************************************************************************)
(* C25.  The token count a chunk carries in its metadata, which is the     *)
(* one add_or_update_documents reads when it packs batches, is the token   *)
(* count of the chunk's own text, for every chunk split_documents makes of *)
(* a document loaded by load_site.                                         *)
(***************************************************************************)
C25_ChunkCarriesOwnTokens ==
    \A r \in 1..Len(split_runs) :
        \A i \in 1..Len(split_runs[r]) :
            split_runs[r][i].tokens = count_tokens(split_runs[r][i].page_content)

(***************************************************************************)
(* C26.  The full-text file has one entry per document, numbered 1..n in   *)
(* input order and closed by a line of 80 '='; the ID field of an entry    *)
(* holds an identifier the pipeline assigns to that document's content,    *)
(* never the placeholder for a missing id.                                 *)
(***************************************************************************)
C26_DumpNumberedWithIds ==
    load_stage \in {"saved", "split"} =>
        /\ Len(full_txt) = Len(site_docs)
        /\ \A i \in 1..Len(full_txt) :
              /\ full_txt[i].number = i
              /\ full_txt[i].content = site_docs[i].page_content
              /\ full_txt[i].separator = [k \in 1..80 |-> "="]
              /\ full_txt[i].id # <<"Unknown ID">>
              /\ load_stage = "split" =>
                    \E c \in 1..Len(split_runs[1]) :
                        /\ split_runs[1][c].source = site_docs[i].source
                        /\ split_runs[1][c].id = full_txt[i].id
====
